---- MODULE Spec2Model ----
(***************************************************************************)
(* A model of c_utils.h: the error-check macros CHECK_ERR_AND_EXIT,        *)
(* CHECK_ERR_AND_FREE and CHECK_ERR_AND_RETURN in their VERBOSE and silent *)
(* expansions, the selection macros MIN and MAX, and RAND_INT.             *)
(*                                                                         *)
(* A macro has no state of its own: the state is the state of the program  *)
(* it is expanded in.  Each thread of that program is a function body that *)
(* executes check macros one after the other; one action is one C          *)
(* statement of the expansion.                                             *)
(***************************************************************************)
EXTENDS Integers, Sequences, FiniteSets, TLC

(* ------------------------------ bounds -------------------------------- *)

\* Threads of the host program (silent build only, see InitThreads).
NThreads == 2
\* Check macros the program executes in one run.
MaxChecks == 2
\* Values of the checked expression range over -MaxVal-1 .. MaxVal.
MaxVal == 1
\* Error numbers the C library stores in errno range over 1 .. MaxErrno.
MaxErrno == 2
\* Status values passed as r_val range over 1 .. MaxStatus.
MaxStatus == 2
\* Width of int in bits: int ranges over -2^(IntBits-1) .. 2^(IntBits-1) - 1.
IntBits == 3
\* RAND_INT calls in one run.
MaxCalls == 3

(* --------------------------- program constants ------------------------ *)

\* exit(EXIT_FAILURE): the failure status of <stdlib.h>.
EXIT_FAILURE == 1

TwoW == 2 ^ IntBits
INT_MAX == 2 ^ (IntBits - 1) - 1
INT_MIN == 0 - INT_MAX - 1
CInt == INT_MIN..INT_MAX
\* rand_r returns a value of 0 .. RAND_MAX.
RAND_MAX == INT_MAX

Threads == 1..NThreads
Vals == (0 - MaxVal - 1)..MaxVal
PosErrno == 1..MaxErrno
\* errno is a modifiable int lvalue: the expression under check is caller code
\* and may leave any int in it, the C library stores positive numbers only.
ErrnoVals == (0 - 1)..MaxErrno
Statuses == 1..MaxStatus
Kinds == {"EXIT", "FREE", "RETURN"}

VARIABLES
  verbose,   \* the build: TRUE when VERBOSE is defined
  nthr,      \* number of running threads
  pc,        \* pc[t]: the statement thread t executes next
  kind,      \* kind[t]: the check macro thread t is in
  rval,      \* rval[t]: its r_val argument (0 for CHECK_ERR_AND_EXIT)
  val,       \* val[t]: the value the evaluation of (val) gave
  evals,     \* evals[t]: evaluations of checked expressions so far
  nchecks,   \* nchecks[t]: check macros entered so far
  r,         \* r[t]: the caller's variable r
  ret,       \* ret[t]: the value the enclosing function returned
  seen,      \* seen[t]: <<e>> once `if (errno > 0)` has read e, else << >>
  mark,      \* mark[t]: Len(stderr) when the macro was entered
  errno,     \* the ambient error indicator
  stderr,    \* what has been written to stderr
  exited,    \* exit() has been called
  status     \* the status given to exit()

chkvars == <<verbose, nthr, pc, kind, rval, val, evals, nchecks, r, ret, seen,
             mark, errno, stderr, exited, status>>

VARIABLES
  mx, my,    \* the operands of MIN / MAX
  mop,       \* the macro applied to them ("none" before)
  mres       \* the operand the conditional expression selected

mmvars == <<mx, my, mop, mres>>

VARIABLES
  ra, rb,    \* the bounds a and b given to RAND_INT
  rerr,      \* the err argument of the last call: "NULL" or "loc"
  errloc,    \* the int err points to when it is not NULL
  errloc0,   \* the value that int held before the first call
  var,       \* the variable RAND_INT assigns
  clk,       \* outcome of clock_gettime in the last call ("none" before)
  ncalls,    \* RAND_INT calls so far
  rcalls,    \* rand_r calls so far
  failed,    \* some call given a non-null err took the clock-failure path
  crashed    \* the process was killed by a trap

rndvars == <<ra, rb, rerr, errloc, errloc0, var, clk, ncalls, rcalls, failed,
             crashed>>

vars == <<chkvars, mmvars, rndvars>>

(* ----------------------- error-check macros -------------------------- *)

\* Faulty variant of Negative: the test written `(val) <= 0`.
NegativeOrZero(v) == v <= 0

\* `(val) < 0`: the test of all six expansions.
Negative(v) == v < 0

\* The first statement of the failure branch.
FailEntry(vb, k) ==
  IF k = "FREE" THEN "assign"
  ELSE IF vb THEN "print" ELSE "leave"

\* The values errno can hold after a stdio call: the C library may store an
\* error number in it, and never stores 0.
AfterWrite(e) == {e} \cup PosErrno

Running(t) == t \in 1..nthr /\ ~exited

RECURSIVE SumTo(_, _)
SumTo(f, n) == IF n = 0 THEN 0 ELSE f[n] + SumTo(f, n - 1)

\* Check macros entered so far, by all threads.
TotalChecks == SumTo(nchecks, NThreads)

\* Thread t enters a check macro of kind k with argument rv and evaluates the
\* checked expression: it yields v and leaves e in errno.
Eval(t, k, rv, v, e) ==
  /\ Running(t)
  /\ pc[t] \in {"start", "next"}
  /\ TotalChecks < MaxChecks
  /\ kind' = [kind EXCEPT ![t] = k]
  /\ rval' = [rval EXCEPT ![t] = rv]
  /\ val' = [val EXCEPT ![t] = v]
  /\ evals' = [evals EXCEPT ![t] = @ + 1]
  /\ nchecks' = [nchecks EXCEPT ![t] = @ + 1]
  /\ seen' = [seen EXCEPT ![t] = << >>]
  /\ mark' = [mark EXCEPT ![t] = Len(stderr)]
  /\ errno' = e
  /\ pc' = [pc EXCEPT ![t] = "test"]
  /\ UNCHANGED <<verbose, nthr, r, ret, stderr, exited, status,
                 mmvars, rndvars>>

\* Faulty variant of Test: the failure branch expands (val) a second time.
TestTwice(t) ==
  /\ Running(t)
  /\ pc[t] = "test"
  /\ pc' = [pc EXCEPT ![t] = IF Negative(val[t])
                              THEN FailEntry(verbose, kind[t]) ELSE "next"]
  /\ evals' = [evals EXCEPT ![t] = IF Negative(val[t]) THEN @ + 1 ELSE @]
  /\ UNCHANGED <<verbose, nthr, kind, rval, val, nchecks, r, ret, seen,
                 mark, errno, stderr, exited, status, mmvars, rndvars>>

\* if ((val) < 0) { ... }  -- the value tested is the one evaluation's result.
Test(t) ==
  /\ Running(t)
  /\ pc[t] = "test"
  /\ pc' = [pc EXCEPT ![t] = IF Negative(val[t])
                              THEN FailEntry(verbose, kind[t]) ELSE "next"]
  /\ UNCHANGED <<verbose, nthr, kind, rval, val, evals, nchecks, r, ret, seen,
                 mark, errno, stderr, exited, status,
                 mmvars, rndvars>>

\* Faulty variant of Assign: the silent expansion keeps the `errno = 0;` of the
\* VERBOSE one.
AssignAndClear(t) ==
  /\ Running(t)
  /\ pc[t] = "assign"
  /\ r' = [r EXCEPT ![t] = rval[t]]
  /\ errno' = 0
  /\ pc' = [pc EXCEPT ![t] = IF verbose THEN "print" ELSE "leave"]
  /\ UNCHANGED <<verbose, nthr, kind, rval, val, evals, nchecks, ret, seen,
                 mark, stderr, exited, status, mmvars, rndvars>>

\* r = r_val;
Assign(t) ==
  /\ Running(t)
  /\ pc[t] = "assign"
  /\ r' = [r EXCEPT ![t] = rval[t]]
  /\ pc' = [pc EXCEPT ![t] = IF verbose THEN "print" ELSE "leave"]
  /\ UNCHANGED <<verbose, nthr, kind, rval, val, evals, nchecks, ret, seen,
                 mark, errno, stderr, exited, status,
                 mmvars, rndvars>>

\* fprintf(stderr, "Error at line %d", __LINE__);
PrintLine(t, e) ==
  /\ Running(t)
  /\ pc[t] = "print"
  /\ stderr' = Append(stderr, <<"line", nchecks[t]>>)
  /\ errno' = e
  /\ pc' = [pc EXCEPT ![t] = "branch"]
  /\ UNCHANGED <<verbose, nthr, kind, rval, val, evals, nchecks, r, ret, seen,
                 mark, exited, status,
                 mmvars, rndvars>>

\* if (errno > 0) { ... } else { ... }
Branch(t) ==
  /\ Running(t)
  /\ pc[t] = "branch"
  /\ seen' = [seen EXCEPT ![t] = <<errno>>]
  /\ pc' = [pc EXCEPT ![t] = IF errno > 0 THEN "perror" ELSE "newline"]
  /\ UNCHANGED <<verbose, nthr, kind, rval, val, evals, nchecks, r, ret, mark,
                 errno, stderr, exited, status,
                 mmvars, rndvars>>

\* Faulty variant of Perror: the `else` is missing, the newline follows perror.
PerrorThenNewline(t, e) ==
  /\ Running(t)
  /\ pc[t] = "perror"
  /\ stderr' = Append(stderr, <<"perror", errno>>)
  /\ errno' = e
  /\ pc' = [pc EXCEPT ![t] = "newline"]
  /\ UNCHANGED <<verbose, nthr, kind, rval, val, evals, nchecks, r, ret, seen,
                 mark, exited, status, mmvars, rndvars>>

\* perror(" ");  -- writes the description of the current errno.
Perror(t, e) ==
  /\ Running(t)
  /\ pc[t] = "perror"
  /\ stderr' = Append(stderr, <<"perror", errno>>)
  /\ errno' = e
  /\ pc' = [pc EXCEPT ![t] = IF kind[t] = "EXIT" THEN "leave" ELSE "clear"]
  /\ UNCHANGED <<verbose, nthr, kind, rval, val, evals, nchecks, r, ret, seen,
                 mark, exited, status,
                 mmvars, rndvars>>

\* Faulty variant of Clear: the branch lacks `errno = 0;`, as CHECK_ERR_AND_EXIT's does.
ClearMissing(t) ==
  /\ Running(t)
  /\ pc[t] = "clear"
  /\ pc' = [pc EXCEPT ![t] = "leave"]
  /\ UNCHANGED <<verbose, nthr, kind, rval, val, evals, nchecks, r, ret, seen,
                 mark, errno, stderr, exited, status, mmvars, rndvars>>

\* errno = 0;  -- CHECK_ERR_AND_FREE and CHECK_ERR_AND_RETURN only.
Clear(t) ==
  /\ Running(t)
  /\ pc[t] = "clear"
  /\ errno' = 0
  /\ pc' = [pc EXCEPT ![t] = "leave"]
  /\ UNCHANGED <<verbose, nthr, kind, rval, val, evals, nchecks, r, ret, seen,
                 mark, stderr, exited, status,
                 mmvars, rndvars>>

\* fprintf(stderr, "\n");
Newline(t, e) ==
  /\ Running(t)
  /\ pc[t] = "newline"
  /\ stderr' = Append(stderr, <<"nl", 0>>)
  /\ errno' = e
  /\ pc' = [pc EXCEPT ![t] = "leave"]
  /\ UNCHANGED <<verbose, nthr, kind, rval, val, evals, nchecks, r, ret, seen,
                 mark, exited, status,
                 mmvars, rndvars>>

\* exit(EXIT_FAILURE);
Exit(t) ==
  /\ Running(t)
  /\ pc[t] = "leave" /\ kind[t] = "EXIT"
  /\ exited' = TRUE
  /\ status' = EXIT_FAILURE
  /\ pc' = [pc EXCEPT ![t] = "exit"]
  /\ UNCHANGED <<verbose, nthr, kind, rval, val, evals, nchecks, r, ret, seen,
                 mark, errno, stderr,
                 mmvars, rndvars>>

\* goto free;
GotoFree(t) ==
  /\ Running(t)
  /\ pc[t] = "leave" /\ kind[t] = "FREE"
  /\ pc' = [pc EXCEPT ![t] = "free"]
  /\ UNCHANGED <<verbose, nthr, kind, rval, val, evals, nchecks, r, ret, seen,
                 mark, errno, stderr, exited, status,
                 mmvars, rndvars>>

\* Faulty variant of Return: a bare `return;` that drops r_val.
ReturnNoValue(t) ==
  /\ Running(t)
  /\ pc[t] = "leave" /\ kind[t] = "RETURN"
  /\ pc' = [pc EXCEPT ![t] = "returned"]
  /\ UNCHANGED <<verbose, nthr, kind, rval, val, evals, nchecks, r, ret, mark,
                 seen, errno, stderr, exited, status, mmvars, rndvars>>

\* return r_val;
Return(t) ==
  /\ Running(t)
  /\ pc[t] = "leave" /\ kind[t] = "RETURN"
  /\ ret' = [ret EXCEPT ![t] = rval[t]]
  /\ pc' = [pc EXCEPT ![t] = "returned"]
  /\ UNCHANGED <<verbose, nthr, kind, rval, val, evals, nchecks, r, mark, seen,
                 errno, stderr, exited, status,
                 mmvars, rndvars>>

\* The enclosing function, left through `free` or `return`, is called again
\* with fresh locals.
Recall(t) ==
  /\ Running(t)
  /\ pc[t] \in {"free", "returned"}
  /\ r' = [r EXCEPT ![t] = 0]
  /\ ret' = [ret EXCEPT ![t] = 0]
  /\ pc' = [pc EXCEPT ![t] = "start"]
  /\ UNCHANGED <<verbose, nthr, kind, rval, val, evals, nchecks, seen, mark,
                 errno, stderr, exited, status,
                 mmvars, rndvars>>

ChkStart ==
  /\ pc = [t \in Threads |-> "start"]
  /\ kind = [t \in Threads |-> "EXIT"]
  /\ rval = [t \in Threads |-> 0]
  /\ val = [t \in Threads |-> 0]
  /\ evals = [t \in Threads |-> 0]
  /\ nchecks = [t \in Threads |-> 0]
  /\ r = [t \in Threads |-> 0]
  /\ ret = [t \in Threads |-> 0]
  /\ seen = [t \in Threads |-> << >>]
  /\ mark = [t \in Threads |-> 0]
  /\ errno = 0
  /\ stderr = << >>
  /\ exited = FALSE
  /\ status = 0

MMIdle == mx = 0 /\ my = 0 /\ mop = "none" /\ mres = [val |-> 0, arg |-> 0]

RndIdle ==
  /\ ra = 0 /\ rb = 0 /\ rerr = "NULL" /\ errloc = 0 /\ errloc0 = 0
  /\ var = 0 /\ clk = "none" /\ ncalls = 0 /\ rcalls = 0
  /\ failed = FALSE /\ crashed = FALSE

\* The VERBOSE expansions are documented "Non thread safe": a program built
\* with VERBOSE runs them in one thread.
Init ==
  /\ verbose \in BOOLEAN
  /\ nthr = 1
  /\ ChkStart /\ MMIdle /\ RndIdle

\* A silent program that runs the macros in NThreads threads.
InitThreads ==
  /\ verbose = FALSE
  /\ nthr = NThreads
  /\ ChkStart /\ MMIdle /\ RndIdle

Next ==
  \/ \E t \in Threads, k \in Kinds, v \in Vals, e \in ErrnoVals :
       \E rv \in (IF k = "EXIT" THEN {0} ELSE Statuses) : Eval(t, k, rv, v, e)
  \/ \E t \in Threads : Test(t)
  \/ \E t \in Threads : Assign(t)
  \/ \E t \in Threads, e \in AfterWrite(errno) : PrintLine(t, e)
  \/ \E t \in Threads : Branch(t)
  \/ \E t \in Threads, e \in AfterWrite(errno) : Perror(t, e)
  \/ \E t \in Threads : Clear(t)
  \/ \E t \in Threads, e \in AfterWrite(errno) : Newline(t, e)
  \/ \E t \in Threads : Exit(t)
  \/ \E t \in Threads : GotoFree(t)
  \/ \E t \in Threads : Return(t)
  \/ \E t \in Threads : Recall(t)

Spec == Init /\ [][Next]_vars

\* The silent expansions read nothing of the value but its sign, and nothing
\* of errno: the threads check one negative and one non-negative value, and
\* their expressions either leave errno alone or store an error number.
NextThreads ==
  \/ \E t \in Threads, k \in Kinds, v \in {0 - 1, 0}, e \in {errno, MaxErrno} :
       \E rv \in (IF k = "EXIT" THEN {0} ELSE Statuses) : Eval(t, k, rv, v, e)
  \/ \E t \in Threads : Test(t)
  \/ \E t \in Threads : Assign(t)
  \/ \E t \in Threads : Exit(t)
  \/ \E t \in Threads : GotoFree(t)
  \/ \E t \in Threads : Return(t)
  \/ \E t \in Threads : Recall(t)

SpecThreads == InitThreads /\ [][NextThreads]_vars

(* ------------------- properties of the check macros ------------------ *)

\* Thread t has entered a check macro and control has left it.
Completed(t) ==
  /\ t \in 1..nthr
  /\ nchecks[t] > 0
  /\ pc[t] \in {"next", "free", "returned", "exit"}

\* Thread t is in, or has left through, the failure branch.
OnFailurePath(t) ==
  pc[t] \in {"assign", "print", "branch", "perror", "clear", "newline",
             "leave", "free", "returned", "exit"}

\* The way a check of kind k left on a negative value.
FailureOutcome(t) ==
  CASE kind[t] = "EXIT" ->
         pc[t] = "exit" /\ exited /\ status = EXIT_FAILURE /\ status # 0
    [] kind[t] = "FREE" -> pc[t] = "free" /\ r[t] = rval[t]
    [] kind[t] = "RETURN" -> pc[t] = "returned" /\ ret[t] = rval[t]

\* C1: in both builds a check of a negative value leaves in exactly one way:
\* CHECK_ERR_AND_EXIT by exit with a failure status, CHECK_ERR_AND_FREE at the
\* label free with r = r_val, CHECK_ERR_AND_RETURN by returning r_val; control
\* never reaches the statement after the macro.
C1_NegativeFails ==
  \A t \in Threads :
    (Completed(t) /\ val[t] < 0) => (pc[t] # "next" /\ FailureOutcome(t))

\* C1 witness: the scenario of the specification, value -1 and status 2 in
\* CHECK_ERR_AND_RETURN; the function has returned 2.
C1_Witness ==
  pc[1] = "returned" /\ kind[1] = "RETURN" /\ val[1] = 0 - 1 /\ rval[1] = 2
  /\ ret[1] = 2

\* C2: a check of a non-negative value (0 included) is a no-op in both builds:
\* the step that tests the value moves control to the statement after the macro
\* and changes neither r, nor errno, nor stderr, nor the return value, and does
\* not exit; this holds of every check of a sequence.
C2_NonNegativeNoOp ==
  [][\A t \in Threads :
       (pc[t] = "test" /\ pc'[t] # "test" /\ val[t] >= 0)
         => /\ pc'[t] = "next"
            /\ r' = r /\ ret' = ret /\ errno' = errno /\ stderr' = stderr
            /\ exited' = exited /\ status' = status]_vars

\* C2 witness: the second check of a sequence, CHECK_ERR_AND_FREE of the
\* value 0, has been passed with errno set and r untouched.
C2_Witness ==
  pc[1] = "next" /\ kind[1] = "FREE" /\ val[1] = 0 /\ nchecks[1] = 2
  /\ r[1] = 0 /\ errno = 1 /\ ~exited

\* C3 as claimed: in the VERBOSE build errno is 0 whenever the failure branch
\* of CHECK_ERR_AND_FREE or CHECK_ERR_AND_RETURN has reached free or returned.
C3_AlwaysCleared ==
  \A t \in Threads :
    (verbose /\ Completed(t) /\ pc[t] \in {"free", "returned"}) => errno = 0

\* C3 amended: in the VERBOSE build errno is 0 at free / at the return
\* whenever `if (errno > 0)` found it positive, i.e. whenever perror reported.
C3_ClearedAfterPerror ==
  \A t \in Threads :
    (verbose /\ Completed(t) /\ pc[t] \in {"free", "returned"}
       /\ seen[t] # << >> /\ seen[t][1] > 0)
      => errno = 0

\* C3 witness: CHECK_ERR_AND_FREE found errno = 2, reported it and reached
\* free with errno cleared.
C3_Witness ==
  verbose /\ pc[1] = "free" /\ seen[1] = <<2>> /\ errno = 0
  /\ stderr[Len(stderr)] = <<"perror", 2>>

\* C4: in both builds and on both paths the checked expression has been
\* evaluated exactly once per macro entered, and a thread is on the failure
\* path exactly when that evaluation gave a negative value.
C4_EvaluatedOnce ==
  \A t \in Threads :
    /\ evals[t] = nchecks[t]
    /\ (t \in 1..nthr /\ pc[t] \notin {"start", "test"})
         => (OnFailurePath(t) <=> val[t] < 0)

\* C4 witness: two macros entered, the second one left through exit on the
\* least value, after two evaluations in all.
C4_Witness ==
  pc[1] = "exit" /\ val[1] = 0 - MaxVal - 1 /\ evals[1] = 2 /\ nchecks[1] = 2

\* C9: when the process has exited, the status is a failure status; in the
\* VERBOSE build the exiting macro wrote exactly two things, first the line
\* report, then perror's description if errno was positive when tested and a
\* bare newline otherwise; in the silent build nothing was ever written.
C9_ExitReport ==
  exited =>
    \E t \in 1..nthr :
      /\ pc[t] = "exit" /\ kind[t] = "EXIT" /\ val[t] < 0
      /\ status = EXIT_FAILURE
      /\ IF verbose
         THEN /\ Len(stderr) = mark[t] + 2
              /\ stderr[mark[t] + 1] = <<"line", nchecks[t]>>
              /\ seen[t] # << >>
              /\ stderr[mark[t] + 2] =
                   (IF seen[t][1] > 0 THEN <<"perror", seen[t][1]>>
                    ELSE <<"nl", 0>>)
         ELSE stderr = << >>

\* C9 witness: a VERBOSE exit that reported an error description.
C9_Witness ==
  exited /\ verbose /\ Len(stderr) = 2 /\ stderr[2] = <<"perror", 1>>

\* C8: in a silent program of several threads, every thread that has left a
\* check left it the way its own value, kind and r_val decide; and no step of
\* a macro reads errno, writes errno or stderr, or changes another thread's
\* position, r or return value.
C8_SilentIsolated ==
  /\ [](\A t \in Threads :
          Completed(t) =>
            IF val[t] < 0 THEN FailureOutcome(t)
            ELSE pc[t] = "next" /\ r[t] = 0 /\ ret[t] = 0)
  /\ [][/\ (nchecks' = nchecks)
             => (errno' = errno /\ stderr' = stderr /\ seen' = seen)
         /\ \A t \in Threads :
              pc'[t] # pc[t] =>
                \A u \in Threads \ {t} :
                  pc'[u] = pc[u] /\ r'[u] = r[u] /\ ret'[u] = ret[u]]_vars

\* C8 witness: two threads have left their checks in different ways while
\* errno held an error number.
C8_Witness ==
  /\ ~verbose /\ nthr >= 2
  /\ pc[1] = "free" /\ r[1] = 1
  /\ pc[2] = "returned" /\ ret[2] = 2
  /\ errno = MaxErrno /\ stderr = << >>

\* The state of the check macros in a program that does not use them.
ChkIdle == verbose = FALSE /\ nthr = 1 /\ ChkStart

(* ----------------------------- MIN and MAX ---------------------------- *)

\* An operand is its value and its position in the argument list: the macro
\* yields one of its two operand expressions.
Operand(v, i) == [val |-> v, arg |-> i]

\* Faulty variant of MIN: the comparison written `<`.
MinStrict(x, y) == IF x.val < y.val THEN x ELSE y

\* #define MIN(x, y) (((x) <= (y)) ? (x) : (y))
MIN(x, y) == IF x.val <= y.val THEN x ELSE y

\* #define MAX(x, y) (((x) >= (y)) ? (x) : (y))
MAX(x, y) == IF x.val >= y.val THEN x ELSE y

ApplyMin ==
  /\ mop = "none"
  /\ mop' = "MIN"
  /\ mres' = MIN(Operand(mx, 1), Operand(my, 2))
  /\ UNCHANGED <<mx, my, chkvars, rndvars>>

ApplyMax ==
  /\ mop = "none"
  /\ mop' = "MAX"
  /\ mres' = MAX(Operand(mx, 1), Operand(my, 2))
  /\ UNCHANGED <<mx, my, chkvars, rndvars>>

InitMinMax ==
  /\ mx \in CInt /\ my \in CInt
  /\ mop = "none" /\ mres = Operand(0, 0)
  /\ ChkIdle /\ RndIdle

NextMinMax == ApplyMin \/ ApplyMax

SpecMinMax == InitMinMax /\ [][NextMinMax]_vars

\* C5: MIN yields one of its operands, less than or equal to both; MAX yields
\* one of its operands, greater than or equal to both; on equal operands (so
\* for MIN(x, x) and MAX(x, x)) both yield the first operand, of value x.
C5_MinMax ==
  /\ mop = "MIN" =>
       /\ mres \in {Operand(mx, 1), Operand(my, 2)}
       /\ mres.val <= mx /\ mres.val <= my
       /\ (mx = my => mres = Operand(mx, 1))
  /\ mop = "MAX" =>
       /\ mres \in {Operand(mx, 1), Operand(my, 2)}
       /\ mres.val >= mx /\ mres.val >= my
       /\ (mx = my => mres = Operand(mx, 1))

\* C5 witness: MIN(3, 3) has yielded its first operand, 3.
C5_Witness == mop = "MIN" /\ mx = 3 /\ my = 3 /\ mres = Operand(3, 1)

(* ------------------------------ RAND_INT ------------------------------ *)

\* The int a wider result wraps to in two's complement.
Wrap(n) == ((n - INT_MIN) % TwoW) + INT_MIN

\* C's n % d for n >= 0 and d # 0: the remainder has the sign of n.
CRem(n, d) == n % (IF d < 0 THEN 0 - d ELSE d)

\* b - a + 1, as written and as an int.
Divisor(a, b) == Wrap(b - a + 1)

\* Evaluating `rnd % (b - a + 1) + a` in int arithmetic is undefined when
\* b - a or b - a + 1 overflows, when the divisor is 0, or when the sum
\* overflows.
Undefined(a, b, rnd) ==
  \/ (b - a) \notin CInt
  \/ (b - a + 1) \notin CInt
  \/ Divisor(a, b) = 0
  \/ (CRem(rnd, Divisor(a, b)) + a) \notin CInt

\* What the builds make of `var = rnd % (b - a + 1) + a`.  Where it is defined,
\* the value.  Where it is undefined, either a trap that kills the process
\* (SIGFPE on a division by zero, an overflow trap), or the two's-complement
\* result; a division by zero that does not trap leaves rnd as the remainder.
Outcomes(a, b, rnd) ==
  IF ~Undefined(a, b, rnd)
  THEN {[trap |-> FALSE, v |-> CRem(rnd, Divisor(a, b)) + a]}
  ELSE {[trap |-> TRUE, v |-> 0],
        [trap |-> FALSE,
         v |-> IF Divisor(a, b) = 0 THEN Wrap(rnd + a)
               ELSE Wrap(CRem(rnd, Divisor(a, b)) + a)]}

\* Faulty variant of RandIntClockFailed: the branch lacks `var = 0;`.
RandIntClockFailedKeepsVar(err, e) ==
  /\ ~crashed
  /\ ncalls < MaxCalls
  /\ clk' = "fail"
  /\ errno' = e
  /\ rerr' = err
  /\ errloc' = IF err # "NULL" THEN 0 - 1 ELSE errloc
  /\ failed' = (failed \/ err # "NULL")
  /\ ncalls' = ncalls + 1
  /\ UNCHANGED <<ra, rb, errloc0, var, rcalls, crashed, mmvars>>
  /\ UNCHANGED <<verbose, nthr, pc, kind, rval, val, evals, nchecks, r, ret,
                 seen, mark, stderr, exited, status>>

\* RAND_INT(var, a, b, err) when clock_gettime(CLOCK_REALTIME, &ts) < 0; the
\* failed clock_gettime has left the error number e in errno.
\*   if (err != NULL) { *((int *) err) = -1; }  var = 0;
RandIntClockFailed(err, e) ==
  /\ ~crashed
  /\ ncalls < MaxCalls
  /\ clk' = "fail"
  /\ errno' = e
  /\ rerr' = err
  /\ errloc' = IF err # "NULL" THEN 0 - 1 ELSE errloc
  /\ var' = 0
  /\ failed' = (failed \/ err # "NULL")
  /\ ncalls' = ncalls + 1
  /\ UNCHANGED <<ra, rb, errloc0, rcalls, crashed, mmvars>>
  /\ UNCHANGED <<verbose, nthr, pc, kind, rval, val, evals, nchecks, r, ret,
                 seen, mark, stderr, exited, status>>

\* Faulty variant of RandIntClockRead: the success branch resets the error output,
\* `if (err != NULL) { *((int *) err) = 0; }`.
RandIntClockReadResetsErr(err, rnd, o) ==
  /\ ~crashed
  /\ ncalls < MaxCalls
  /\ o \in Outcomes(ra, rb, rnd)
  /\ clk' = "ok"
  /\ rerr' = err
  /\ errloc' = IF err # "NULL" THEN 0 ELSE errloc
  /\ rcalls' = rcalls + 1
  /\ ncalls' = ncalls + 1
  /\ crashed' = o.trap
  /\ var' = IF o.trap THEN var ELSE o.v
  /\ UNCHANGED <<ra, rb, errloc0, failed, mmvars, chkvars>>

\* RAND_INT(var, a, b, err) when the clock was read; rnd is what rand_r made
\* of the seed taken from the reading, o the outcome of the assignment
\*   var = rand_r((unsigned int *) &t) % (b - a + 1) + a;
RandIntClockRead(err, rnd, o) ==
  /\ ~crashed
  /\ ncalls < MaxCalls
  /\ o \in Outcomes(ra, rb, rnd)
  /\ clk' = "ok"
  /\ rerr' = err
  /\ rcalls' = rcalls + 1
  /\ ncalls' = ncalls + 1
  /\ crashed' = o.trap
  /\ var' = IF o.trap THEN var ELSE o.v
  /\ UNCHANGED <<ra, rb, errloc, errloc0, failed, mmvars, chkvars>>

\* The values the int behind err holds before the first call.
ErrInit == (0 - 1)..1

InitRand ==
  /\ ra \in CInt /\ rb \in CInt
  /\ errloc0 \in ErrInit /\ errloc = errloc0
  /\ rerr = "NULL" /\ var = 1 /\ clk = "none" /\ ncalls = 0 /\ rcalls = 0
  /\ failed = FALSE /\ crashed = FALSE
  /\ ChkIdle /\ MMIdle

NextRand ==
  \/ \E err \in {"NULL", "loc"}, e \in PosErrno : RandIntClockFailed(err, e)
  \/ \E err \in {"NULL", "loc"}, rnd \in 0..RAND_MAX :
       \E o \in Outcomes(ra, rb, rnd) : RandIntClockRead(err, rnd, o)

SpecRand == InitRand /\ [][NextRand]_vars

\* C6: after a call that read the clock, with a <= b, the call has assigned
\* var a value of a .. b.
C6_InRange ==
  (clk = "ok" /\ ra <= rb) => (~crashed /\ ra <= var /\ var <= rb)

\* C7: a call in which the clock read fails sets var to 0 whatever a and b
\* are, stores -1 behind a non-null err, leaves the int behind a null err's
\* would-be target as it was, and calls rand_r not at all.
C7_ClockFailure ==
  [][(ncalls' = ncalls + 1 /\ clk' = "fail")
       => /\ var' = 0
          /\ rcalls' = rcalls
          /\ crashed' = crashed
          /\ (rerr' # "NULL" => errloc' = 0 - 1)
          /\ (rerr' = "NULL" => errloc' = errloc)]_vars

\* C7 witness: after a successful call, a call with a null err failed with
\* bounds that exclude 0: var is 0 and the int behind err is untouched.
C7_Witness ==
  /\ clk = "fail" /\ rerr = "NULL" /\ var = 0 /\ errloc = 1
  /\ ra = 1 /\ rb = 2 /\ rcalls = 1 /\ ncalls = 2

\* C10: a call that read the clock leaves the int behind err as it was; and
\* at all times that int is -1 exactly when it was -1 before the first call or
\* some call given that err took the clock-failure path.
C10_ErrSticky ==
  /\ [](errloc = 0 - 1 <=> (errloc0 = 0 - 1 \/ failed))
  /\ [][(ncalls' = ncalls + 1 /\ clk' = "ok") => errloc' = errloc]_vars

\* C10 witness: the int behind err was 0, a call failed, and a later call
\* with the same err read the clock: the int is still -1.
C10_Witness ==
  /\ errloc0 = 0 /\ failed /\ clk = "ok" /\ rerr = "loc" /\ ~crashed
  /\ errloc = 0 - 1 /\ ncalls = 2

====
